---- MODULE Spec2Model ----
(***************************************************************************)
(* Obolus challenge-response MFA protocol.                                 *)
(*                                                                         *)
(* Two specifications share this module:                                   *)
(*   Spec      the stateful server (src/server-challenge.py, MfaServer):   *)
(*             the challenges table, the audit_log table, a clock, and     *)
(*             concurrent callers of verify_response, each with its own    *)
(*             sqlite connection;                                          *)
(*   SpecCore  the stateless verifier (src/core/verify.py): inputs drawn   *)
(*             from bounded sets, one call of verify_response applied.     *)
(*                                                                         *)
(* Time is counted in minutes.  A Python datetime is a record              *)
(* [aware, t]; an ISO-8601 string is a record [ok, t, sfx] whose suffix    *)
(* is "" (naive), "Z" or "+00:00".  An Ed25519 signature is the pair       *)
(* (signing key, signed message); it verifies under a public key exactly   *)
(* when the key matches and the message is the one verified.               *)
(***************************************************************************)
EXTENDS Integers, Sequences, FiniteSets, TLC

\* ---------------------------------------------------------------- bounds
MaxTime == 2
NumCallers == 2
CoreMaxNow == 3

\* ------------------------------------------------------ program constants
ExpiryMinutes == 1
ToleranceMinutes == 5

Ids == {"c1", "c2"}
Actions == {"unlock"}
Nonces == {"n1"}
Callers == 1..NumCallers

HolderKey == "holder"
AttackerKey == "attacker"

VARIABLES
    challenges,   \* challenges table: id -> row
    audit_log,    \* audit_log table, in insertion order
    now,          \* the wall clock
    issued,       \* what the last generate_challenge call gave its caller
    pc,           \* per caller: position in verify_response
    args,         \* per caller: (challenge_id, response_data) of the call, and
                  \* (history) the callers whose call had returned before it
    row,          \* per caller: the row fetched by the SELECT
    result,       \* per caller: what the call gave its caller
    cin,          \* core verify_response: the inputs of the call
    cout,          \* core verify_response: its outcome
    state,        \* IoTDevice.state: power, temperature, lock
    pending_challenges,  \* IoTDevice.pending_challenges: id -> entry
    device_out    \* what the last call on the device returned

vars == <<challenges, audit_log, now, issued, pc, args, row, result, cin, cout,
         state, pending_challenges, device_out>>

\* the variables of the IoT device
iotVars == <<state, pending_challenges, device_out>>

\* ------------------------------------------------------- Python datetimes
\* datetime.utcnow(): a naive datetime
UtcNow(t) == [aware |-> FALSE, t |-> t]

\* datetime.now(timezone.utc): an aware datetime
NowUtc(t) == [aware |-> TRUE, t |-> t]

\* datetime.isoformat(): "+00:00" is appended for an aware datetime only
IsoFormat(d) == [ok |-> TRUE, t |-> d.t, sfx |-> IF d.aware THEN "+00:00" ELSE ""]

\* s + "Z"
AppendZ(s) == [s EXCEPT !.sfx = s.sfx \o "Z"]

\* s.replace("Z", "+00:00")
ReplaceZ(s) == [s EXCEPT !.sfx = IF s.sfx = "Z" THEN "+00:00" ELSE s.sfx]

\* datetime.fromisoformat(s) succeeds; a trailing "Z" is accepted from
\* Python 3.11 on only
IsoParses(s, py311) == s.ok /\ (s.sfx \in {"", "+00:00"} \/ (s.sfx = "Z" /\ py311))

\* datetime.fromisoformat(s), where it succeeds
FromIsoFormat(s) == [aware |-> s.sfx # "", t |-> s.t]

\* a < b, a > b on datetimes raise TypeError when exactly one is naive
Comparable(a, b) == a.aware = b.aware

\* ------------------------------------------------------------ signatures
\* f"{id}:{action}:{nonce}:{response_action}".encode()
FStringMessage(id, action, nonce, response_action) ==
    id \o ":" \o action \o ":" \o nonce \o ":" \o response_action

\* private_key.sign(message)
Sign(key, message) == [key |-> key, msg |-> message]

\* base64.b64encode(signature).decode("utf-8")
B64Encode(sig) == [enc |-> "b64", key |-> sig.key, msg |-> sig.msg]

\* base64.b64decode(s) returns bytes (it raises on bad padding or on None)
B64Decodes(s) == s.enc = "b64"

\* base64.b64decode(s), where it succeeds
B64Decode(s) == [key |-> s.key, msg |-> s.msg]

\* public_key.verify(signature, message) returns (it raises InvalidSignature
\* otherwise); the verifier holds the holder's public key
KeyVerifies(sig, message) == sig.key = HolderKey /\ sig.msg = message

BadPadding == [enc |-> "badpad", key |-> "", msg |-> ""]
NoSignature == [enc |-> "missing", key |-> "", msg |-> ""]

Missing == "<missing>"
NoIso == [ok |-> FALSE, t |-> 0, sfx |-> "<missing>"]
NullResponse == [json |-> "null", id |-> "", response |-> "", timestamp |-> NoIso,
                 signature |-> NoSignature]
NullRow == [id |-> "", action |-> "", timestamp |-> NoIso, nonce |-> "",
            expires_at |-> NoIso, status |-> "", response |-> NullResponse,
            response_timestamp |-> NoIso]

NoResult == [kind |-> "none", ok |-> FALSE, status |-> ""]
Return(ok, status) == [kind |-> "return", ok |-> ok, status |-> status]
Raise(exc) == [kind |-> "raise", ok |-> FALSE, status |-> exc]

\* ------------------------------------------------------------- MfaClient
\* the challenge dict handed to the holder
ChallengeOf(r) == [id |-> r.id, action |-> r.action, timestamp |-> r.timestamp,
                   nonce |-> r.nonce, expires_at |-> r.expires_at]

\* MfaClient.sign_response(challenge, response_action), signing at time t
\* with the given private key; response_action is "approved" or "rejected"
\* (anything else raises ValueError before a signature exists)
sign_response(key, challenge, response_action, t) ==
    [json |-> "object",
     id |-> challenge.id,
     response |-> response_action,
     timestamp |-> AppendZ(IsoFormat(UtcNow(t))),
     signature |-> B64Encode(Sign(key,
                      FStringMessage(challenge.id, challenge.action,
                                     challenge.nonce, response_action)))]

\* ------------------------------------------------------------- MfaServer
\* the row of a table whose status column has no DEFAULT
NewRow_NoDefault(id, action, nonce, t) ==
    [id |-> id, action |-> action,
     timestamp |-> AppendZ(IsoFormat(UtcNow(t))),
     nonce |-> nonce,
     expires_at |-> AppendZ(IsoFormat(UtcNow(t + ExpiryMinutes))),
     status |-> "<null>",
     response |-> NullResponse,
     response_timestamp |-> NoIso]

\* the row INSERTed by generate_challenge; status takes its DEFAULT,
\* response and response_timestamp are NULL
NewRow(id, action, nonce, t) ==
    [id |-> id, action |-> action,
     timestamp |-> AppendZ(IsoFormat(UtcNow(t))),
     nonce |-> nonce,
     expires_at |-> AppendZ(IsoFormat(UtcNow(t + ExpiryMinutes))),
     status |-> "pending",
     response |-> NullResponse,
     response_timestamp |-> NoIso]

AuditEntry(t, event_type, challenge_id, action, outcome) ==
    [timestamp |-> AppendZ(IsoFormat(UtcNow(t))), event_type |-> event_type,
     challenge_id |-> challenge_id, action |-> action, outcome |-> outcome]

\* generate_challenge keeping only the newest audit entry
generate_challenge_LogRewritten(action, id, nonce) ==
    /\ IF id \in DOMAIN challenges
       THEN /\ issued' = "IntegrityError"
            /\ UNCHANGED <<challenges, audit_log>>
       ELSE /\ challenges' = [i \in DOMAIN challenges \cup {id} |->
                                 IF i = id THEN NewRow(id, action, nonce, now)
                                 ELSE challenges[i]]
            /\ audit_log' = <<AuditEntry(now, "CHALLENGE_CREATED", id, action, "")>>
            /\ issued' = id
    /\ UNCHANGED <<now, pc, args, row, result, cin, cout>>
    /\ UNCHANGED iotVars

\* generate_challenge with INSERT OR REPLACE: a stored id is overwritten
generate_challenge_Replace(action, id, nonce) ==
    /\ challenges' = [i \in DOMAIN challenges \cup {id} |->
                         IF i = id THEN NewRow(id, action, nonce, now)
                         ELSE challenges[i]]
    /\ audit_log' = Append(audit_log,
                        AuditEntry(now, "CHALLENGE_CREATED", id, action, ""))
    /\ issued' = id
    /\ UNCHANGED <<now, pc, args, row, result, cin, cout>>
    /\ UNCHANGED iotVars

\* MfaServer.generate_challenge(action): uuid4 and os.urandom are draws
\* from Ids and Nonces; the INSERT of an id already stored violates the
\* PRIMARY KEY and raises before anything is committed
generate_challenge(action, id, nonce) ==
    /\ IF id \in DOMAIN challenges
       THEN /\ issued' = "IntegrityError"
            /\ UNCHANGED <<challenges, audit_log>>
       ELSE /\ challenges' = [i \in DOMAIN challenges \cup {id} |->
                                 IF i = id THEN NewRow(id, action, nonce, now)
                                 ELSE challenges[i]]
            /\ audit_log' = Append(audit_log,
                                AuditEntry(now, "CHALLENGE_CREATED", id, action, ""))
            /\ issued' = id
    /\ UNCHANGED <<now, pc, args, row, result, cin, cout>>
    /\ UNCHANGED iotVars

\* the comparison of verify_response with both sides read as UTC instants,
\* as with datetime.now(timezone.utc) on the left
ExpiryComparable_BothAware(r, t) ==
    Comparable(NowUtc(t), FromIsoFormat(ReplaceZ(r.expires_at)))

\* the comparison "now > expires_at_dt" of verify_response: datetime.utcnow()
\* against the stored expires_at with its "Z" replaced by "+00:00"
ExpiryComparable(r, t) ==
    Comparable(UtcNow(t), FromIsoFormat(ReplaceZ(r.expires_at)))

ExpiredAt(r, t) == UtcNow(t).t > FromIsoFormat(ReplaceZ(r.expires_at)).t

\* the try block of verify_response up to public_key.verify: "" when no
\* exception is raised, else the text of the exception
TryError(r, data) ==
    IF data.json # "object" THEN "JSONDecodeError"
    ELSE IF data.id # r.id THEN "Response ID does not match challenge ID"
    ELSE IF ~B64Decodes(data.signature) THEN "binascii.Error"
    ELSE IF ~KeyVerifies(B64Decode(data.signature),
                         FStringMessage(r.id, r.action, r.nonce,
                                        IF data.response = Missing THEN "None"
                                        ELSE data.response))
         THEN "InvalidSignature"
    ELSE ""

NewStatus(data) == IF data.response = "approved" THEN "approved" ELSE "rejected"

\* verify_response without lines 130-141: no comparison with expires_at
VerifyOutcome_NoExpiryCheck(r, data, t, table, log) ==
    IF r.status # "pending"
    THEN [res |-> Return(FALSE, "Challenge has already been " \o r.status),
          table |-> table, log |-> log]
    ELSE IF TryError(r, data) # ""
    THEN [res |-> Return(FALSE, "Verification failed: " \o TryError(r, data)),
          table |-> table,
          log |-> Append(log, AuditEntry(t, "VERIFICATION_FAILED", r.id, "",
                                         TryError(r, data)))]
    ELSE [res |-> Return(TRUE, NewStatus(data)),
          table |-> [table EXCEPT ![r.id].status = NewStatus(data),
                                  ![r.id].response = data,
                                  ![r.id].response_timestamp =
                                      AppendZ(IsoFormat(UtcNow(t)))],
          log |-> Append(log, AuditEntry(t, "RESPONSE_VERIFIED", r.id, r.action,
                                         NewStatus(data)))]

\* MfaServer.verify_response after the SELECT returned row r: what the call
\* gives its caller and what its transaction commits, at clock t
VerifyOutcome(r, data, t, table, log) ==
    IF r.status # "pending"
    THEN [res |-> Return(FALSE, "Challenge has already been " \o r.status),
          table |-> table, log |-> log]
    ELSE IF ~ExpiryComparable(r, t)
    THEN [res |-> Raise("TypeError"), table |-> table, log |-> log]
    ELSE IF ExpiredAt(r, t)
    THEN [res |-> Return(FALSE, "Challenge has expired"),
          table |-> [table EXCEPT ![r.id].status = "expired"],
          log |-> log]
    ELSE IF TryError(r, data) # ""
    THEN [res |-> Return(FALSE, "Verification failed: " \o TryError(r, data)),
          table |-> table,
          log |-> Append(log, AuditEntry(t, "VERIFICATION_FAILED", r.id, "",
                                         TryError(r, data)))]
    ELSE [res |-> Return(TRUE, NewStatus(data)),
          table |-> [table EXCEPT ![r.id].status = NewStatus(data),
                                  ![r.id].response = data,
                                  ![r.id].response_timestamp =
                                      AppendZ(IsoFormat(UtcNow(t)))],
          log |-> Append(log, AuditEntry(t, "RESPONSE_VERIFIED", r.id, r.action,
                                         NewStatus(data)))]

\* response_data a caller may submit for challenge_id id.  For every stored
\* challenge the holder signed an approval and a rejection when it was
\* issued; a caller submits one of them for the id it names (which gives an
\* id mismatch when they were signed for another id), or the approval
\* re-signed with a foreign key, or with a signature that does not decode;
\* for an id that was never issued there is nothing a holder signed, and the
\* caller submits text that is not JSON
SignedAtIssue(key, i, d) ==
    sign_response(key, ChallengeOf(challenges[i]), d,
                  FromIsoFormat(challenges[i].timestamp).t)

ResponseChoices(id) ==
    IF id \notin DOMAIN challenges THEN {[NullResponse EXCEPT !.json = "text"]} ELSE
    {SignedAtIssue(HolderKey, i, "approved") : i \in DOMAIN challenges}
    \cup {SignedAtIssue(HolderKey, i, "rejected") : i \in DOMAIN challenges \cap {id}}
    \cup {SignedAtIssue(AttackerKey, i, "approved") : i \in DOMAIN challenges \cap {id}}
    \cup {[SignedAtIssue(HolderKey, i, "approved") EXCEPT !.signature = BadPadding] :
             i \in DOMAIN challenges \cap {id}}

\* verify_response without the return on an absent row
VerifySelect_NoAbsenceCheck(p, id, data) ==
    /\ pc[p] = "idle"
    /\ \A q \in Callers : q < p => pc[q] # "idle"
    /\ args' = [args EXCEPT ![p] = [challenge_id |-> id, response_data |-> data,
                                     after |-> {q \in Callers : pc[q] = "done"}]]
    /\ row' = [row EXCEPT ![p] = IF id \in DOMAIN challenges
                                 THEN challenges[id] ELSE NullRow]
    /\ pc' = [pc EXCEPT ![p] = "fetched"]
    /\ UNCHANGED <<result, challenges, audit_log, now, issued, cin, cout>>
    /\ UNCHANGED iotVars

\* verify_response, lines 111-120: connect, SELECT the row, return when
\* there is none.  Callers are interchangeable, so caller p + 1 calls only
\* once caller p has called
VerifySelect(p, id, data) ==
    /\ pc[p] = "idle"
    /\ \A q \in Callers : q < p => pc[q] # "idle"
    /\ args' = [args EXCEPT ![p] = [challenge_id |-> id, response_data |-> data,
                                     after |-> {q \in Callers : pc[q] = "done"}]]
    /\ IF id \in DOMAIN challenges
       THEN /\ row' = [row EXCEPT ![p] = challenges[id]]
            /\ pc' = [pc EXCEPT ![p] = "fetched"]
            /\ UNCHANGED result
       ELSE /\ result' = [result EXCEPT ![p] = Return(FALSE, "Challenge not found")]
            /\ pc' = [pc EXCEPT ![p] = "done"]
            /\ UNCHANGED row
    /\ UNCHANGED <<challenges, audit_log, now, issued, cin, cout>>
    /\ UNCHANGED iotVars

\* verify_response, lines 122-198, on the fetched row: the writes of the
\* call are one sqlite transaction, committed as a whole or not at all
VerifyFinish(p) ==
    /\ pc[p] = "fetched"
    /\ LET o == VerifyOutcome(row[p], args[p].response_data, now, challenges, audit_log)
       IN  /\ result' = [result EXCEPT ![p] = o.res]
           /\ challenges' = o.table
           /\ audit_log' = o.log
    /\ pc' = [pc EXCEPT ![p] = "done"]
    /\ UNCHANGED <<now, issued, args, row, cin, cout>>
    /\ UNCHANGED iotVars

\* the clock advances
Tick ==
    /\ now < MaxTime
    /\ now' = now + 1
    /\ UNCHANGED <<challenges, audit_log, issued, pc, args, row, result, cin, cout>>
    /\ UNCHANGED iotVars

\* ----------------------------------------------------------- core/shared
\* format_message with the nonce left out of the message
format_message_NoNonce(challenge_id, action, nonce, response_action) ==
    challenge_id \o ":" \o action \o ":" \o response_action

\* format_message that accepts every response action
FormatMessageRaises_Never(response_action) == response_action \in {}

\* format_message(challenge_id, action, nonce, response_action); it raises
\* ValueError unless response_action is "approved" or "rejected"
FormatMessageRaises(response_action) == response_action \notin {"approved", "rejected"}

format_message(challenge_id, action, nonce, response_action) ==
    challenge_id \o ":" \o action \o ":" \o nonce \o ":" \o response_action

\* parse_challenge(challenge_data): "" when it returns the challenge, else
\* the exception it raises.  The comparison now > expires_at has
\* datetime.now(timezone.utc) on its left and raises TypeError, which the
\* except ValueError around it does not catch, for a naive expires_at
ParseChallengeError(c, py311) ==
    IF \E f \in {c.id, c.action, c.nonce} : f = Missing
    THEN "Challenge missing required field"
    ELSE IF c.timestamp.sfx = Missing \/ c.expires_at.sfx = Missing
    THEN "Challenge missing required field"
    ELSE IF ~IsoParses(c.expires_at, py311) THEN "Invalid expires_at format"
    ELSE IF ~Comparable(NowUtc(0), FromIsoFormat(c.expires_at))
    THEN "can't compare offset-naive and offset-aware datetimes"
    ELSE ""

\* tools/challenge_gen.py generate_challenge(action, expiry_seconds) with
\* the uuid and the nonce drawn, at clock t
tool_generate_challenge(action, expiry, id, nonce, t) ==
    [id |-> id, action |-> action,
     timestamp |-> IsoFormat(NowUtc(t)),
     nonce |-> nonce,
     expires_at |-> IsoFormat(NowUtc(t + expiry))]

\* create_response(challenge_id, response_action, signature) at clock t
create_response(challenge_id, response_action, signature, t) ==
    [json |-> "object",
     id |-> challenge_id,
     response |-> response_action,
     timestamp |-> IsoFormat(NowUtc(t)),
     signature |-> B64Encode(signature)]

\* ------------------------------------------------------------- core/sign
\* sign_challenge with the signing time mixed into the signed message
sign_challenge_TimestampSigned(challenge, key, response_action, t) ==
    create_response(challenge.id, response_action,
                    Sign(key, format_message(challenge.id, challenge.action,
                                             challenge.nonce, response_action)
                              \o ":" \o ToString(t)),
                    t)

\* sign_challenge(challenge_data, private_key_source, response_action) for
\* a challenge that parses and a decision format_message accepts
sign_challenge(challenge, key, response_action, t) ==
    create_response(challenge.id, response_action,
                    Sign(key, format_message(challenge.id, challenge.action,
                                             challenge.nonce, response_action)),
                    t)

\* ----------------------------------------------------------- core/verify
\* parse_response without the check of the response action
ParseResponseError_AnyDecision(r) ==
    IF r.json # "object" THEN "Invalid response JSON"
    ELSE IF r.id = Missing \/ r.response = Missing \/ r.timestamp.sfx = Missing
            \/ r.signature.enc = "missing"
    THEN "Response missing required field"
    ELSE ""

\* parse_response(response_data): "" when it returns the response, else the
\* ValueError it raises
ParseResponseError(r) ==
    IF r.json # "object" THEN "Invalid response JSON"
    ELSE IF r.id = Missing \/ r.response = Missing \/ r.timestamp.sfx = Missing
            \/ r.signature.enc = "missing"
    THEN "Response missing required field"
    ELSE IF r.response \notin {"approved", "rejected"}
    THEN "Response action must be 'approved' or 'rejected'"
    ELSE ""

\* core verify_response with the signature decoded before the expiry check
VerifyFromExpiry_DecodeFirst(in) ==
    LET c == in.challenge
        r == in.response
    IN
    IF ~B64Decodes(r.signature)
    THEN Return(FALSE, "Invalid signature encoding")
    ELSE IF NowUtc(in.now2).t > FromIsoFormat(c.expires_at).t
    THEN Return(FALSE, "EXPIRED")
    ELSE IF ~in.key_ok
    THEN Return(FALSE, "Verification error: Error loading public key")
    ELSE IF KeyVerifies(B64Decode(r.signature),
                        format_message(c.id, c.action, c.nonce, r.response))
    THEN Return(TRUE, r.response)
    ELSE Return(FALSE, "Invalid signature")

\* core verify_response, lines 112-141: the expiry check, the key, the
\* signature
VerifyFromExpiry(in) ==
    LET c == in.challenge
        r == in.response
    IN
    IF NowUtc(in.now2).t > FromIsoFormat(c.expires_at).t
    THEN Return(FALSE, "EXPIRED")
    ELSE IF ~in.key_ok
    THEN Return(FALSE, "Verification error: Error loading public key")
    ELSE IF ~B64Decodes(r.signature)
    THEN Return(FALSE, "Invalid signature encoding")
    ELSE IF KeyVerifies(B64Decode(r.signature),
                        format_message(c.id, c.action, c.nonce, r.response))
    THEN Return(TRUE, r.response)
    ELSE Return(FALSE, "Invalid signature")

\* verify_response with no allowance for clock drift
verify_response_NoTolerance(in) ==
    LET c == in.challenge
        r == in.response
        ct == FromIsoFormat(c.timestamp)
        rt == FromIsoFormat(r.timestamp)
        n1 == NowUtc(in.now1)
    IN
    IF ParseChallengeError(c, in.py311) # ""
    THEN Return(FALSE, "Verification error: " \o ParseChallengeError(c, in.py311))
    ELSE IF ParseResponseError(r) # ""
    THEN Return(FALSE, "Verification error: " \o ParseResponseError(r))
    ELSE IF r.id # c.id
    THEN Return(FALSE, "Response ID does not match challenge ID")
    ELSE IF ~IsoParses(c.timestamp, in.py311) \/ ~IsoParses(r.timestamp, in.py311)
    THEN Return(FALSE, "Invalid timestamp format")
    ELSE IF ~Comparable(rt, ct)
    THEN Return(FALSE, "Verification error: can't compare offset-naive and offset-aware datetimes")
    ELSE IF rt.t < ct.t
    THEN Return(FALSE, "Response timestamp predates challenge creation")
    ELSE IF ~Comparable(rt, n1)
    THEN Return(FALSE, "Verification error: can't compare offset-naive and offset-aware datetimes")
    ELSE IF rt.t > n1.t
    THEN Return(FALSE, "Response timestamp is from the future")
    ELSE VerifyFromExpiry(in)

\* core verify_response(challenge_data, response_data, public_key_path).
\* in.now1 is the clock read for the timestamp window, in.now2 the clock
\* read for the expiry check, in.key_ok whether the key file loads
verify_response(in) ==
    LET c == in.challenge
        r == in.response
        ct == FromIsoFormat(c.timestamp)
        rt == FromIsoFormat(r.timestamp)
        n1 == NowUtc(in.now1)
    IN
    IF ParseChallengeError(c, in.py311) # ""
    THEN Return(FALSE, "Verification error: " \o ParseChallengeError(c, in.py311))
    ELSE IF ParseResponseError(r) # ""
    THEN Return(FALSE, "Verification error: " \o ParseResponseError(r))
    ELSE IF r.id # c.id
    THEN Return(FALSE, "Response ID does not match challenge ID")
    ELSE IF ~IsoParses(c.timestamp, in.py311) \/ ~IsoParses(r.timestamp, in.py311)
    THEN Return(FALSE, "Invalid timestamp format")
    ELSE IF ~Comparable(rt, ct)
    THEN Return(FALSE, "Verification error: can't compare offset-naive and offset-aware datetimes")
    ELSE IF rt.t < ct.t
    THEN Return(FALSE, "Response timestamp predates challenge creation")
    ELSE IF ~Comparable(rt, n1)
    THEN Return(FALSE, "Verification error: can't compare offset-naive and offset-aware datetimes")
    ELSE IF rt.t > n1.t + ToleranceMinutes
    THEN Return(FALSE, "Response timestamp is from the future")
    ELSE VerifyFromExpiry(in)

\* ------------------------------------------------ inputs of the core call
CoreIssueTime == 1
UnparseableIso == [ok |-> FALSE, t |-> 0, sfx |-> ""]
NaiveIso(t) == IsoFormat(UtcNow(t))
ZuluIso(t) == AppendZ(IsoFormat(UtcNow(t)))

\* the challenge tools/challenge_gen.py issued at CoreIssueTime
CoreChallenge == tool_generate_challenge("unlock", ExpiryMinutes, "c1", "n1", CoreIssueTime)

\* that challenge, and the same with one field absent or with one of its
\* instants naive, "Z"-suffixed or unparseable
CoreChallenges ==
    {CoreChallenge}
    \cup {[CoreChallenge EXCEPT !.id = Missing], [CoreChallenge EXCEPT !.action = Missing],
          [CoreChallenge EXCEPT !.nonce = Missing], [CoreChallenge EXCEPT !.timestamp = NoIso],
          [CoreChallenge EXCEPT !.expires_at = NoIso]}
    \cup {[CoreChallenge EXCEPT !.timestamp = x] :
             x \in {NaiveIso(CoreIssueTime), ZuluIso(CoreIssueTime), UnparseableIso}}
    \cup {[CoreChallenge EXCEPT !.expires_at = x] :
             x \in {NaiveIso(CoreIssueTime + ExpiryMinutes),
                    ZuluIso(CoreIssueTime + ExpiryMinutes), UnparseableIso}}

CoreRespTimestamps ==
    {IsoFormat(NowUtc(t)) : t \in 0..(CoreMaxNow + ToleranceMinutes + 1)}
    \cup {NaiveIso(CoreIssueTime), ZuluIso(CoreIssueTime), UnparseableIso, NoIso}

\* signatures: the holder's over the approval and over the rejection of
\* CoreChallenge, a foreign key's over the approval, text that does not
\* decode, and none
CoreSignatures ==
    {sign_challenge(CoreChallenge, HolderKey, d, 0).signature : d \in {"approved", "rejected"}}
    \cup {sign_challenge(CoreChallenge, AttackerKey, "approved", 0).signature}
    \cup {BadPadding, NoSignature}

CoreResponses ==
    {[json |-> "object", id |-> i, response |-> d, timestamp |-> ts, signature |-> sg] :
        i \in {"c1", "c2", Missing},
        d \in {"approved", "rejected", "maybe", Missing},
        ts \in CoreRespTimestamps,
        sg \in CoreSignatures}
    \cup {[NullResponse EXCEPT !.json = "text"]}

\* every response is tried against the well-formed challenge; against a
\* challenge that is not, the responses stamped at CoreIssueTime
CorePairs(c, r) ==
    \/ c = CoreChallenge
    \/ r.timestamp \in {IsoFormat(NowUtc(CoreIssueTime)), NaiveIso(CoreIssueTime)}
    \/ r.json = "text"

\* --------------------------------------------------- examples/iot-example
\* IoTDevice.__init__: the simulated device state, no pending challenge
InitialState == [power |-> "off", temperature |-> 21, lock |-> "locked"]
NoDeviceOut == [op |-> "none", ok |-> FALSE, message |-> "", response |-> NullResponse]

DeviceInit ==
    /\ state = InitialState
    /\ pending_challenges = <<>>
    /\ device_out = NoDeviceOut

NoArgs == [challenge_id |-> "", response_data |-> NullResponse, after |-> {}]
NoCoreIn == [used |-> FALSE]
NoCoreOut == NoResult

Init ==
    /\ challenges = <<>>
    /\ audit_log = <<>>
    /\ now = 0
    /\ issued = "none"
    /\ pc = [p \in Callers |-> "idle"]
    /\ args = [p \in Callers |-> NoArgs]
    /\ row = [p \in Callers |-> NullRow]
    /\ result = [p \in Callers |-> NoResult]
    /\ cin = NoCoreIn
    /\ cout = NoCoreOut
    /\ DeviceInit

Next ==
    \/ \E a \in Actions, i \in Ids, n \in Nonces : generate_challenge(a, i, n)
    \/ \E p \in Callers, i \in Ids : \E d \in ResponseChoices(i) : VerifySelect(p, i, d)
    \/ \E p \in Callers : VerifyFinish(p)
    \/ Tick

Spec == Init /\ [][Next]_vars

\* one call of core verify_response on the drawn inputs
CoreVerify ==
    /\ cin.used
    /\ cout.kind = "none"
    /\ cout' = verify_response(cin)
    /\ UNCHANGED <<challenges, audit_log, now, issued, pc, args, row, result, cin>>
    /\ UNCHANGED iotVars

InitCore ==
    /\ challenges = <<>>
    /\ audit_log = <<>>
    /\ now = 0
    /\ issued = "none"
    /\ pc = [p \in Callers |-> "idle"]
    /\ args = [p \in Callers |-> NoArgs]
    /\ row = [p \in Callers |-> NullRow]
    /\ result = [p \in Callers |-> NoResult]
    /\ \E c \in CoreChallenges, r \in CoreResponses, k \in BOOLEAN, v \in BOOLEAN,
          n1 \in 0..CoreMaxNow, n2 \in 0..CoreMaxNow :
            /\ CorePairs(c, r)
            /\ n1 <= n2
            /\ cin = [used |-> TRUE, challenge |-> c, response |-> r, key_ok |-> k,
                      py311 |-> v, now1 |-> n1, now2 |-> n2]
    /\ cout = NoCoreOut
    /\ DeviceInit

NextCore == CoreVerify

SpecCore == InitCore /\ [][NextCore]_vars

\* one run of tools/challenge_gen.py: --expiry is any int (argparse type=int,
\* no range check), the clock reads a drawn instant
MaxExpiry == 3
IssueMaxNow == 4
ExpiryArgs == (0 - MaxExpiry)..MaxExpiry

IssueTool ==
    /\ cin.tool = "challenge_gen"
    /\ cout = NoCoreOut
    /\ cout' = tool_generate_challenge(cin.action, cin.expiry, cin.id, cin.nonce, cin.now)
    /\ UNCHANGED <<challenges, audit_log, now, issued, pc, args, row, result, cin>>
    /\ UNCHANGED iotVars

InitIssue ==
    /\ challenges = <<>>
    /\ audit_log = <<>>
    /\ now = 0
    /\ issued = "none"
    /\ pc = [p \in Callers |-> "idle"]
    /\ args = [p \in Callers |-> NoArgs]
    /\ row = [p \in Callers |-> NullRow]
    /\ result = [p \in Callers |-> NoResult]
    /\ \E a \in Actions, e \in ExpiryArgs, i \in Ids, n \in Nonces, t \in 0..IssueMaxNow :
          cin = [used |-> FALSE, tool |-> "challenge_gen", action |-> a, expiry |-> e,
                 id |-> i, nonce |-> n, now |-> t]
    /\ cout = NoCoreOut
    /\ DeviceInit

NextIssue == IssueTool

SpecIssue == InitIssue /\ [][NextIssue]_vars

\* a whole call of core sign_challenge at clock t, with a key that loads:
\* what it raises, or the response it returns
sign_challenge_call(challenge, key, response_action, t, py311) ==
    IF ParseChallengeError(challenge, py311) # ""
    THEN Raise(ParseChallengeError(challenge, py311))
    ELSE IF FormatMessageRaises(response_action)
    THEN Raise("Response action must be 'approved' or 'rejected'")
    ELSE [kind |-> "return", ok |-> TRUE, status |-> response_action,
          response |-> sign_challenge(challenge, key, response_action, t)]

\* a whole call of MfaClient.sign_response at clock t: the check of the
\* response action comes first, then challenge['id'], ['action'], ['nonce']
\* are read
sign_response_call(key, challenge, response_action, t) ==
    IF response_action \notin {"approved", "rejected"}
    THEN Raise("Response action must be 'approved' or 'rejected'")
    ELSE IF \E f \in {challenge.id, challenge.action, challenge.nonce} : f = Missing
    THEN Raise("KeyError")
    ELSE [kind |-> "return", ok |-> TRUE, status |-> response_action,
          response |-> sign_response(key, challenge, response_action, t)]

\* response actions a caller may pass to a signer
SignActions == {"approved", "rejected", "maybe", "Approved", ""}

SignCall ==
    /\ cin.tool = "sign"
    /\ cout = NoCoreOut
    /\ cout' = IF cin.signer = "core"
               THEN sign_challenge_call(cin.challenge, cin.key, cin.response_action, cin.now,
                                        cin.py311)
               ELSE sign_response_call(cin.key, cin.challenge, cin.response_action, cin.now)
    /\ UNCHANGED <<challenges, audit_log, now, issued, pc, args, row, result, cin>>
    /\ UNCHANGED iotVars

InitSign ==
    /\ challenges = <<>>
    /\ audit_log = <<>>
    /\ now = 0
    /\ issued = "none"
    /\ pc = [p \in Callers |-> "idle"]
    /\ args = [p \in Callers |-> NoArgs]
    /\ row = [p \in Callers |-> NullRow]
    /\ result = [p \in Callers |-> NoResult]
    /\ \E s \in {"core", "client"}, c \in CoreChallenges, k \in {HolderKey, AttackerKey},
          d \in SignActions, t \in 0..CoreMaxNow, v \in BOOLEAN :
            cin = [used |-> FALSE, tool |-> "sign", signer |-> s, challenge |-> c,
                   key |-> k, response_action |-> d, now |-> t, py311 |-> v]
    /\ cout = NoCoreOut
    /\ DeviceInit

NextSign == SignCall

SpecSign == InitSign /\ [][NextSign]_vars

\* a whole call of format_message: the ValueError or the bytes
format_message_call(challenge_id, action, nonce, response_action) ==
    IF FormatMessageRaises(response_action)
    THEN Raise("Response action must be 'approved' or 'rejected'")
    ELSE Return(TRUE, format_message(challenge_id, action, nonce, response_action))

\* values of id, action and nonce, with and without the separator
FieldValues == {"a", "b", "a:b", "b:a", ":"}

FormatCall ==
    /\ cin.tool = "format_message"
    /\ cout = NoCoreOut
    /\ cout' = format_message_call(cin.id, cin.action, cin.nonce, cin.response_action)
    /\ UNCHANGED <<challenges, audit_log, now, issued, pc, args, row, result, cin>>
    /\ UNCHANGED iotVars

InitFormat ==
    /\ challenges = <<>>
    /\ audit_log = <<>>
    /\ now = 0
    /\ issued = "none"
    /\ pc = [p \in Callers |-> "idle"]
    /\ args = [p \in Callers |-> NoArgs]
    /\ row = [p \in Callers |-> NullRow]
    /\ result = [p \in Callers |-> NoResult]
    /\ \E i \in FieldValues, a \in FieldValues, n \in FieldValues,
          d \in {"approved", "rejected", "maybe"} :
            cin = [used |-> FALSE, tool |-> "format_message", id |-> i, action |-> a,
                   nonce |-> n, response_action |-> d]
    /\ cout = NoCoreOut
    /\ DeviceInit

NextFormat == FormatCall

SpecFormat == InitFormat /\ [][NextFormat]_vars

\* display_challenge(challenge) of core/shared.py: "" when it prints, else
\* the exception raised by fromisoformat of the timestamp (expires_at was
\* parsed and compared by parse_challenge before)
DisplayChallengeError(c, py311) ==
    IF ~IsoParses(c.timestamp, py311) THEN "ValueError" ELSE ""

\* main() of tools/obolus-verify.py: the exit code.  sys.exit inside the try
\* raises SystemExit, which "except Exception" does not catch
obolus_verify_main(in) ==
    IF ~in.challenge_readable \/ ~in.response_readable THEN 2
    ELSE IF ParseChallengeError(in.challenge, in.py311) # "" THEN 2
    ELSE IF DisplayChallengeError(in.challenge, in.py311) # "" THEN 2
    ELSE IF verify_response(in).ok THEN 0
    ELSE 1

CliMain ==
    /\ cin.tool = "obolus-verify"
    /\ cout = NoCoreOut
    /\ cout' = [kind |-> "exit", code |-> obolus_verify_main(cin)]
    /\ UNCHANGED <<challenges, audit_log, now, issued, pc, args, row, result, cin>>
    /\ UNCHANGED iotVars

\* the files named on the command line: the challenge and response of the
\* core inputs, each readable or not, and a key file that loads or not
InitCli ==
    /\ challenges = <<>>
    /\ audit_log = <<>>
    /\ now = 0
    /\ issued = "none"
    /\ pc = [p \in Callers |-> "idle"]
    /\ args = [p \in Callers |-> NoArgs]
    /\ row = [p \in Callers |-> NullRow]
    /\ result = [p \in Callers |-> NoResult]
    /\ \E c \in CoreChallenges, r \in CoreResponses, k \in BOOLEAN, v \in BOOLEAN,
          cr \in BOOLEAN, rr \in BOOLEAN, n1 \in 0..CoreMaxNow :
            /\ CorePairs(c, r)
            /\ cin = [used |-> FALSE, tool |-> "obolus-verify",
                      challenge |-> c, response |-> r, key_ok |-> k, py311 |-> v,
                      challenge_readable |-> cr, response_readable |-> rr,
                      now1 |-> n1, now2 |-> n1]
    /\ cout = NoCoreOut
    /\ DeviceInit

NextCli == CliMain

SpecCli == InitCli /\ [][NextCli]_vars

\* ------------------------------------------------------------------ JSON
\* Text is a sequence of characters; id and action are free text, the other
\* fields (base64, isoformat, the two decisions) hold no character that
\* JSON escapes and are written as they are.
MaxTextLen == 2
JsonChars == {"a", "\"", "\\"}
Texts(n) == UNION {[1..k -> JsonChars] : k \in 1..n}

\* the Python str of a character sequence
RECURSIVE Str(_)
Str(s) == IF s = <<>> THEN "" ELSE Head(s) \o Str(Tail(s))

\* the characters of a Python str
Chars(a) == CHOOSE s \in Texts(MaxTextLen) : Str(s) = a

\* a string body that escapes the quote and leaves the backslash
RECURSIVE JsonEscape_QuotesOnly(_)
JsonEscape_QuotesOnly(s) ==
    IF s = <<>> THEN <<>>
    ELSE (IF Head(s) = "\"" THEN <<"\\", Head(s)>> ELSE <<Head(s)>>)
         \o JsonEscape_QuotesOnly(Tail(s))

\* json.dumps of a str, between the quotes: quote and backslash are
\* preceded by a backslash
RECURSIVE JsonEscape(_)
JsonEscape(s) ==
    IF s = <<>> THEN <<>>
    ELSE (IF Head(s) \in {"\"", "\\"} THEN <<"\\", Head(s)>> ELSE <<Head(s)>>)
         \o JsonEscape(Tail(s))

\* the body of a JSON string is well formed: no bare quote, and every
\* backslash is followed by a quote or a backslash
RECURSIVE JsonBodyValid(_)
JsonBodyValid(s) ==
    IF s = <<>> THEN TRUE
    ELSE IF Head(s) = "\"" THEN FALSE
    ELSE IF Head(s) = "\\"
         THEN Len(s) >= 2 /\ s[2] \in {"\"", "\\"} /\ JsonBodyValid(Tail(Tail(s)))
    ELSE JsonBodyValid(Tail(s))

\* json.loads of a well-formed string body
RECURSIVE JsonUnescape(_)
JsonUnescape(s) ==
    IF s = <<>> THEN <<>>
    ELSE IF Head(s) = "\\" THEN <<s[2]>> \o JsonUnescape(Tail(Tail(s)))
    ELSE <<Head(s)>> \o JsonUnescape(Tail(s))

\* json.dumps(challenge) and json.dumps(response): the document, with the
\* bodies of its free-text strings
json_dumps_challenge(c) ==
    [c EXCEPT !.id = JsonEscape(Chars(c.id)), !.action = JsonEscape(Chars(c.action))]

json_dumps_response(r) ==
    [r EXCEPT !.json = "document", !.id = JsonEscape(Chars(r.id))]

\* parse_challenge(challenge_data) on a JSON string: json.loads, then the
\* checks; what it raises or the dict it returns
parse_challenge_call(doc, py311) ==
    IF ~JsonBodyValid(doc.id) \/ ~JsonBodyValid(doc.action)
    THEN Raise("Invalid challenge JSON")
    ELSE LET c == [doc EXCEPT !.id = Str(JsonUnescape(doc.id)),
                              !.action = Str(JsonUnescape(doc.action))]
         IN  IF ParseChallengeError(c, py311) # ""
             THEN Raise(ParseChallengeError(c, py311))
             ELSE [kind |-> "return", ok |-> TRUE, status |-> "", value |-> c]

\* parse_response(response_data) on a JSON string
parse_response_call(doc) ==
    IF doc.json # "document" \/ ~JsonBodyValid(doc.id)
    THEN Raise("Invalid response JSON")
    ELSE LET r == [doc EXCEPT !.json = "object", !.id = Str(JsonUnescape(doc.id))]
         IN  IF ParseResponseError(r) # ""
             THEN Raise(ParseResponseError(r))
             ELSE [kind |-> "return", ok |-> TRUE, status |-> "", value |-> r]

\* one encoding to JSON followed by one decoding, of a challenge issued by
\* tools/challenge_gen.py or of the response core sign_challenge makes for it
RoundTrip ==
    /\ cin.tool = "roundtrip"
    /\ cout = NoCoreOut
    /\ cout' = IF cin.kind = "challenge"
               THEN parse_challenge_call(json_dumps_challenge(cin.challenge), cin.py311)
               ELSE parse_response_call(json_dumps_response(cin.response))
    /\ UNCHANGED <<challenges, audit_log, now, issued, pc, args, row, result, cin>>
    /\ UNCHANGED iotVars

InitRoundTrip ==
    /\ challenges = <<>>
    /\ audit_log = <<>>
    /\ now = 0
    /\ issued = "none"
    /\ pc = [p \in Callers |-> "idle"]
    /\ args = [p \in Callers |-> NoArgs]
    /\ row = [p \in Callers |-> NullRow]
    /\ result = [p \in Callers |-> NoResult]
    /\ \E k \in {"challenge", "response"}, i \in Texts(MaxTextLen), a \in Texts(MaxTextLen),
          d \in {"approved", "rejected"}, v \in BOOLEAN :
            LET c == tool_generate_challenge(Str(a), ExpiryMinutes, Str(i), "n1",
                                             CoreIssueTime)
            IN  cin = [used |-> FALSE, tool |-> "roundtrip", kind |-> k, py311 |-> v,
                       challenge |-> c,
                       response |-> sign_challenge(c, HolderKey, d, CoreIssueTime)]
    /\ cout = NoCoreOut
    /\ DeviceInit

NextRoundTrip == RoundTrip

SpecRoundTrip == InitRoundTrip /\ [][NextRoundTrip]_vars

\* ------------------------------------------- examples/iot-example: device
DeviceId == "device001"
SecureActions == {"set_power", "set_temperature", "unlock_door"}

\* int(value) of _set_temperature succeeds on these parameters
IntParams == {"25", "40"}
IntOf(value) == IF value = "25" THEN 25 ELSE 40

\* the action functions: whether they succeed and the state they leave
set_power(st, value) ==
    IF value \notin {"on", "off"} THEN [ok |-> FALSE, state |-> st]
    ELSE [ok |-> TRUE, state |-> [st EXCEPT !.power = value]]

set_temperature(st, value) ==
    IF value \notin IntParams THEN [ok |-> FALSE, state |-> st]
    ELSE IF IntOf(value) < 10 \/ IntOf(value) > 30 THEN [ok |-> FALSE, state |-> st]
    ELSE [ok |-> TRUE, state |-> [st EXCEPT !.temperature = IntOf(value)]]

unlock_door(st, value) ==
    IF value # "true" THEN [ok |-> FALSE, state |-> st]
    ELSE [ok |-> TRUE, state |-> [st EXCEPT !.lock = "unlocked"]]

action_func(action, st, value) ==
    IF action = "set_power" THEN set_power(st, value)
    ELSE IF action = "set_temperature" THEN set_temperature(st, value)
    ELSE unlock_door(st, value)

\* the names bound at module level of iot-example.py once it is loaded:
\* the functions and the class it defines, app, device, and the three Flask
\* views, of which the last is named verify_response (line 197)
ModuleGlobals ==
    {"standalone_generate_challenge", "standalone_verify_response", "IoTDevice",
     "app", "device", "get_state", "request_action", "verify_response", "main"}

\* standalone_verify_response: obolus-verify run on the two files it writes
standalone_verify_response(challenge, response, t) ==
    obolus_verify_main([challenge |-> challenge, response |-> response,
                        key_ok |-> TRUE, py311 |-> TRUE,
                        challenge_readable |-> TRUE, response_readable |-> TRUE,
                        now1 |-> t, now2 |-> t]) = 0

\* a verification step that accepts every response
DeviceVerify_Trusting(challenge, response, t) == Return(TRUE, response.response)

\* lines 153-156 of process_response: 'verify_response' is in globals(), so
\* line 154 calls the Flask view verify_response(), which takes no argument,
\* with three, and raises TypeError
DeviceVerify(challenge, response, t) ==
    IF "verify_response" \in ModuleGlobals
    THEN Raise("TypeError")
    ELSE Return(standalone_verify_response(challenge, response, t), "")

\* IoTDevice.process_response(response_data) at clock t: what it returns,
\* the device state and the pending challenges it leaves
ProcessOutcome(response, st, pend, t) ==
    IF response.json # "object"
    THEN [ok |-> FALSE, message |-> "Error processing response", state |-> st,
          pending |-> pend]
    ELSE IF response.id \notin DOMAIN pend
    THEN [ok |-> FALSE, message |-> "Challenge not found or already processed",
          state |-> st, pending |-> pend]
    ELSE LET p == pend[response.id]
             v == DeviceVerify(p.challenge, response, t)
             f == action_func(p.action, st, p.param)
         IN  IF v.kind = "raise"
             THEN [ok |-> FALSE, message |-> "Error processing response",
                   state |-> st, pending |-> pend]
             ELSE IF ~v.ok
             THEN [ok |-> FALSE, message |-> "Verification failed", state |-> st,
                   pending |-> pend]
             ELSE IF response.response # "approved"
             THEN [ok |-> FALSE, message |-> "Action was rejected by the user",
                   state |-> st, pending |-> pend]
             ELSE [ok |-> f.ok, message |-> "executed", state |-> f.state,
                   pending |-> [i \in DOMAIN pend \ {response.id} |-> pend[i]]]

\* IoTDevice.request_action(action, param): an unknown action is refused;
\* else a challenge with the default expiry is generated and stored under
\* its id (a dict assignment: an id drawn twice replaces the entry)
request_action(action, param, id, nonce) ==
    /\ IF action \notin SecureActions
       THEN /\ device_out' = [op |-> "request_action", ok |-> FALSE,
                              message |-> "Unknown action", response |-> NullResponse]
            /\ UNCHANGED pending_challenges
       ELSE LET challenge ==
                    tool_generate_challenge(
                        action \o "(" \o param \o ") on device " \o DeviceId,
                        ExpiryMinutes, id, nonce, now)
            IN  /\ pending_challenges' =
                       [i \in DOMAIN pending_challenges \cup {id} |->
                           IF i = id
                           THEN [challenge |-> challenge, action |-> action,
                                 param |-> param]
                           ELSE pending_challenges[i]]
                /\ device_out' = [op |-> "request_action", ok |-> TRUE,
                                  message |-> id, response |-> NullResponse]
    /\ UNCHANGED <<state, challenges, audit_log, now, issued, pc, args, row, result,
                   cin, cout>>

process_response(response_data) ==
    /\ LET o == ProcessOutcome(response_data, state, pending_challenges, now)
       IN  /\ state' = o.state
           /\ pending_challenges' = o.pending
           /\ device_out' = [op |-> "process_response", ok |-> o.ok,
                             message |-> o.message, response |-> response_data]
    /\ UNCHANGED <<challenges, audit_log, now, issued, pc, args, row, result, cin, cout>>

\* what a client may POST to /verify for id i: for a pending challenge the
\* holder's approval or rejection or an approval signed with a foreign key,
\* each signed now; for any other id an unsigned object; or text that is not
\* JSON
DeviceResponses(i) ==
    IF i \in DOMAIN pending_challenges
    THEN {sign_challenge(pending_challenges[i].challenge, HolderKey, d, now) :
             d \in {"approved", "rejected"}}
         \cup {sign_challenge(pending_challenges[i].challenge, AttackerKey, "approved", now)}
    ELSE {[NullResponse EXCEPT !.json = "object", !.id = i],
          [NullResponse EXCEPT !.json = "text"]}

\* requests a client may make: (action, param)
DeviceRequests ==
    {<<"set_power", "on">>, <<"set_temperature", "25">>, <<"set_temperature", "40">>,
     <<"unlock_door", "true">>, <<"reboot", "">>}

NextIot ==
    \/ \E q \in DeviceRequests, i \in Ids, n \in Nonces :
          request_action(q[1], q[2], i, n)
    \/ \E i \in Ids : \E r \in DeviceResponses(i) : process_response(r)
    \/ Tick

SpecIot == Init /\ [][NextIot]_vars

\* ------------------------------------ MfaServer.verify_response with faults
\* an exception on the success path of verify_response, after the UPDATE of
\* lines 165-168 was executed: "audit" is the INSERT of lines 171-178
\* raising, "commit" the commit of line 180 raising (database locked),
\* "print" the print of line 181 raising after the commit
Faults == {"none", "audit", "commit", "print"}

\* verify_response under fault f.  A fault strikes only a call that reached
\* line 163; the except handler (lines 184-195) then INSERTs its
\* VERIFICATION_FAILED entry and commits, on the connection that still holds
\* the executed UPDATE, so the new status is committed with it; after
\* "commit" and "print" the RESPONSE_VERIFIED entry is in the log as well
VerifyOutcomeFault(r, data, t, table, log, f) ==
    LET o == VerifyOutcome(r, data, t, table, log)
    IN  IF f = "none" \/ ~(o.res.kind = "return" /\ o.res.ok) THEN o
        ELSE [res |-> Return(FALSE, "Verification failed: " \o f),
              table |-> o.table,
              log |-> Append(IF f = "audit" THEN log ELSE o.log,
                             AuditEntry(t, "VERIFICATION_FAILED", r.id, "", f))]

VerifyFinishFault(p, f) ==
    /\ pc[p] = "fetched"
    /\ LET o == VerifyOutcomeFault(row[p], args[p].response_data, now, challenges,
                                   audit_log, f)
       IN  /\ result' = [result EXCEPT ![p] = o.res]
           /\ challenges' = o.table
           /\ audit_log' = o.log
    /\ pc' = [pc EXCEPT ![p] = "done"]
    /\ UNCHANGED <<now, issued, args, row, cin, cout>>
    /\ UNCHANGED iotVars

NextVerifyFault ==
    \/ \E a \in Actions, i \in Ids, n \in Nonces : generate_challenge(a, i, n)
    \/ \E p \in Callers, i \in Ids : \E d \in ResponseChoices(i) : VerifySelect(p, i, d)
    \/ \E p \in Callers, f \in Faults : VerifyFinishFault(p, f)
    \/ Tick

SpecVerifyFault == Init /\ [][NextVerifyFault]_vars

\* --------------------------------------- examples/backend_example: /verify
\* verify_challenge_response(request): the key of the request is decoded,
\* challenge and response are parsed (parse_challenge only prints a warning
\* for an expired challenge), the message is formed from the challenge and
\* the response value, and the signature is verified; any exception gives
\* verified = False.  in.key_ok: request.public_key decodes to the holder's
\* key
backend_verify(in) ==
    LET c == in.challenge
        r == in.response
    IN  IF ~in.key_ok THEN Return(FALSE, "Invalid signature: public key")
        ELSE IF ParseChallengeError(c, in.py311) # ""
        THEN Return(FALSE, "Invalid signature: " \o ParseChallengeError(c, in.py311))
        ELSE IF ParseResponseError(r) # ""
        THEN Return(FALSE, "Invalid signature: " \o ParseResponseError(r))
        ELSE IF ~B64Decodes(r.signature)
        THEN Return(FALSE, "Invalid signature: binascii.Error")
        ELSE IF KeyVerifies(B64Decode(r.signature),
                            format_message(c.id, c.action, c.nonce, r.response))
        THEN Return(TRUE, r.response)
        ELSE Return(FALSE, "Invalid signature: ")

BackendVerify ==
    /\ cin.tool = "backend"
    /\ cout = NoCoreOut
    /\ cout' = backend_verify(cin)
    /\ UNCHANGED <<challenges, audit_log, now, issued, pc, args, row, result, cin>>
    /\ UNCHANGED iotVars

\* the requests POSTed to /verify: the inputs of the core call
InitBackend ==
    /\ challenges = <<>>
    /\ audit_log = <<>>
    /\ now = 0
    /\ issued = "none"
    /\ pc = [p \in Callers |-> "idle"]
    /\ args = [p \in Callers |-> NoArgs]
    /\ row = [p \in Callers |-> NullRow]
    /\ result = [p \in Callers |-> NoResult]
    /\ \E c \in CoreChallenges, r \in CoreResponses, k \in BOOLEAN, v \in BOOLEAN,
          n1 \in 0..CoreMaxNow, n2 \in 0..CoreMaxNow :
            /\ CorePairs(c, r)
            /\ n1 <= n2
            /\ cin = [used |-> FALSE, tool |-> "backend", challenge |-> c,
                      response |-> r, key_ok |-> k, py311 |-> v,
                      now1 |-> n1, now2 |-> n2]
    /\ cout = NoCoreOut
    /\ DeviceInit

NextBackend == BackendVerify

SpecBackend == InitBackend /\ [][NextBackend]_vars

\* issuance alone, with the 16 bytes of os.urandom drawn from two values
IssueNonces == {"n1", "n2"}

NextServerIssue ==
    \/ \E a \in Actions, i \in Ids, n \in IssueNonces : generate_challenge(a, i, n)
    \/ Tick

SpecServerIssue == Init /\ [][NextServerIssue]_vars

\* MfaServer.generate_challenge when the INSERT into audit_log (lines 92-98)
\* raises sqlite3.OperationalError (disk full, table locked or missing):
\* the exception leaves the method before commit (line 100), so the row
\* INSERTed at lines 86-89 is rolled back with the connection; for a stored
\* id the first INSERT has raised before
generate_challenge_audit_fails(action, id, nonce) ==
    /\ issued' = IF id \in DOMAIN challenges THEN "IntegrityError"
                 ELSE "OperationalError"
    /\ UNCHANGED <<challenges, audit_log, now, pc, args, row, result, cin, cout>>
    /\ UNCHANGED iotVars

\* issuance with an audit table that may refuse a write
NextAuditFault ==
    \/ \E a \in Actions, i \in Ids, n \in IssueNonces : generate_challenge(a, i, n)
    \/ \E a \in Actions, i \in Ids, n \in IssueNonces :
          generate_challenge_audit_fails(a, i, n)
    \/ Tick

SpecAuditFault == Init /\ [][NextAuditFault]_vars

\* ------------------------------------------------------------------------
\* Properties of the server (checked under Spec)
\* ------------------------------------------------------------------------
Decisions == {"approved", "rejected"}
Terminal == {"approved", "rejected", "expired"}

\* the instant a stored challenge expires
ExpiresT(r) == FromIsoFormat(ReplaceZ(r.expires_at)).t

\* caller p named a stored challenge and submitted the holder's signature
\* over decision d for it
Honest(p, d) ==
    /\ args[p].challenge_id \in DOMAIN challenges
    /\ args[p].response_data = SignedAtIssue(HolderKey, args[p].challenge_id, d)

\* caller p has called: its SELECT found the challenge pending
SawPending(p) == pc[p] # "idle" /\ row[p].status = "pending"

AllDone == \A p \in Callers : pc[p] = "done"

\* C1: when all callers verify the same pending, unexpired challenge
\* concurrently (every SELECT ran before any call returned), each with a
\* validly signed response, exactly one call returns True, the others
\* return failure, and the stored status is the one the succeeding call
\* returned.
C1_ExactlyOneSuccess ==
    \A i \in DOMAIN challenges :
        ( /\ AllDone
          /\ \A p \in Callers :
                /\ args[p].challenge_id = i
                /\ \E d \in Decisions : Honest(p, d)
                /\ SawPending(p)
                /\ args[p].after = {}
          /\ now <= ExpiresT(challenges[i]) )
        => \E w \in Callers :
              /\ result[w].kind = "return" /\ result[w].ok
              /\ \A p \in Callers \ {w} : result[p].kind = "return" /\ ~result[p].ok
              /\ challenges[i].status = result[w].status

C3_HonestRun ==
    \A p \in Callers : \A d \in Decisions :
        ( /\ pc[p] = "done"
          /\ \A q \in Callers \ {p} : pc[q] = "idle"
          /\ Honest(p, d)
          /\ now <= ExpiresT(challenges[args[p].challenge_id]) )
        => /\ result[p] = Return(TRUE, d)
           /\ challenges[args[p].challenge_id].status = d

C5_LazyExpiry ==
    [][\A p \in Callers :
          ( /\ pc[p] = "fetched" /\ pc'[p] = "done"
            /\ row[p].status = "pending"
            /\ now > ExpiresT(row[p]) )
          => /\ result'[p] =
                  IF \E q \in args[p].after :
                        /\ args[q].challenge_id = args[p].challenge_id
                        /\ result[q] = Return(FALSE, "Challenge has expired")
                  THEN Return(FALSE, "Challenge has already been expired")
                  ELSE Return(FALSE, "Challenge has expired")
             /\ challenges'[row[p].id].status = "expired"]_vars

\* C6: a call that reads the clock at now > expires_at fails with the
\* expired outcome whatever the signature, and a call that reads it at
\* now <= expires_at (now = expires_at included) with the holder's
\* signature over d for a pending challenge succeeds with d.
C6_ExpiryBoundary ==
    [][\A p \in Callers :
          (pc[p] = "fetched" /\ pc'[p] = "done" /\ row[p].status = "pending"
             /\ challenges[row[p].id].status = "pending")
          => /\ now > ExpiresT(row[p])
                  => result'[p] = Return(FALSE, "Challenge has expired")
             /\ \A d \in Decisions :
                  (now <= ExpiresT(row[p]) /\ Honest(p, d))
                      => result'[p] = Return(TRUE, d)]_vars

\* C9: no call of MfaServer.verify_response raises: unknown id, terminal
\* challenge, expired challenge, id mismatch, undecodable signature and bad
\* signature all come back as a returned (False, reason); and no call of
\* core verify_response raises.
C9_NeverRaises ==
    /\ \A p \in Callers : pc[p] = "done" => result[p].kind = "return"
    /\ cout.kind # "raise"

\* C10: a call that submits the holder's signature over decision d for a
\* pending, unexpired challenge returns exactly d as its status, and the
\* status stored for the challenge is then d.
C10_DecisionReturnedAndStored ==
    [][\A p \in Callers : \A d \in Decisions :
          ( /\ pc[p] = "fetched" /\ pc'[p] = "done"
            /\ Honest(p, d)
            /\ challenges[row[p].id].status = "pending"
            /\ now <= ExpiresT(row[p]) )
          => /\ result'[p].ok
             /\ result'[p].status = args[p].response_data.response
             /\ challenges'[row[p].id].status = args[p].response_data.response]_vars

\* ------------------------------------------------------------------------
\* Properties of the stateless verifier (checked under SpecCore)
\* ------------------------------------------------------------------------
CoreDone == cin.used /\ cout.kind = "return"

AllPresent(r) ==
    /\ r.json = "object"
    /\ r.id # Missing /\ r.response # Missing
    /\ r.timestamp.sfx # Missing /\ r.signature.enc # "missing"

\* the challenge is the well-formed one and the key file loads
CoreChallengeGood == cin.challenge = CoreChallenge /\ cin.key_ok

\* an instant written with its UTC offset
AwareInstant(ts) == ts.ok /\ ts.sfx = "+00:00"

\* the response timestamp is inside the accepted window
InWindow(in) ==
    /\ AwareInstant(in.response.timestamp)
    /\ in.response.timestamp.t >= in.challenge.timestamp.t
    /\ in.response.timestamp.t <= in.now1 + ToleranceMinutes

ExpiredCore(in) == in.now2 > in.challenge.expires_at.t

SignatureDecodes(r) == r.signature.enc = "b64"

SignatureGood(in) ==
    /\ in.response.signature.key = HolderKey
    /\ in.response.signature.msg =
          in.challenge.id \o ":" \o in.challenge.action \o ":"
             \o in.challenge.nonce \o ":" \o in.response.response

\* the outcome the order of checks (1)..(5) prescribes
FirstFailure(in) ==
    IF in.response.id # in.challenge.id
    THEN Return(FALSE, "Response ID does not match challenge ID")
    ELSE IF in.response.timestamp.t < in.challenge.timestamp.t
    THEN Return(FALSE, "Response timestamp predates challenge creation")
    ELSE IF in.response.timestamp.t > in.now1 + ToleranceMinutes
    THEN Return(FALSE, "Response timestamp is from the future")
    ELSE IF ExpiredCore(in)
    THEN Return(FALSE, "EXPIRED")
    ELSE IF ~SignatureDecodes(in.response)
    THEN Return(FALSE, "Invalid signature encoding")
    ELSE IF ~SignatureGood(in)
    THEN Return(FALSE, "Invalid signature")
    ELSE Return(TRUE, in.response.response)

\* C7: for a response that decodes, against a well-formed challenge, core
\* verify_response reports the first failing check in the order: id,
\* response not before challenge, response not more than 5 minutes after
\* now, expiry, signature encoding, signature; and success when none fails.
C7_CheckOrder ==
    ( /\ CoreDone
      /\ CoreChallengeGood
      /\ AllPresent(cin.response)
      /\ cin.response.response \in Decisions
      /\ AwareInstant(cin.response.timestamp) )
    => cout = FirstFailure(cin)

\* C7 witness: a mismatched id on an expired challenge, with a signature
\* that does not decode, was reported as id mismatch.
C7_Witness ==
    /\ CoreDone
    /\ CoreChallengeGood
    /\ AllPresent(cin.response)
    /\ cin.response.response \in Decisions
    /\ AwareInstant(cin.response.timestamp)
    /\ cin.response.id # cin.challenge.id
    /\ ExpiredCore(cin)
    /\ ~SignatureDecodes(cin.response)
    /\ cout = Return(FALSE, "Response ID does not match challenge ID")

\* the response is malformed: a required field is absent, the response
\* value is invalid, or the signature is not valid base64
Malformed(r) ==
    \/ ~AllPresent(r)
    \/ r.response \notin Decisions
    \/ r.signature.enc = "badpad"

\* the challenge has expired and nothing but malformedness is wrong with
\* the response: what it carries of id and timestamp passes checks (1), (2)
ExpiredAndMalformed ==
    /\ CoreDone
    /\ CoreChallengeGood
    /\ ExpiredCore(cin)
    /\ cin.response.json = "object"
    /\ Malformed(cin.response)
    /\ cin.response.id \in {cin.challenge.id, Missing}
    /\ cin.response.timestamp.sfx = Missing \/ InWindow(cin)

\* C8 as claimed: an expired challenge with a malformed response is
\* reported as expired.
C8_ExpiredNotMalformed == ExpiredAndMalformed => cout = Return(FALSE, "EXPIRED")

\* C8 amended: an expired challenge is reported as expired when the
\* response has its four fields and a valid response value, also when its
\* signature is not valid base64; a response with a field absent or with an
\* invalid response value is reported as a verification error naming that
\* defect.
C8_ExpiredUnlessUndecodable ==
    ExpiredAndMalformed =>
        cout = IF ~AllPresent(cin.response)
               THEN Return(FALSE, "Verification error: Response missing required field")
               ELSE IF cin.response.response \notin Decisions
               THEN Return(FALSE, "Verification error: Response action must be 'approved' or 'rejected'")
               ELSE Return(FALSE, "EXPIRED")

\* C8 witness: an expired challenge with a response whose signature is not
\* valid base64 was reported as expired.
C8_Witness ==
    /\ ExpiredAndMalformed
    /\ AllPresent(cin.response)
    /\ cin.response.response \in Decisions
    /\ cin.response.signature = BadPadding
    /\ cout = Return(FALSE, "EXPIRED")

\* C6, stateless half: with the id and the timestamp window passed, core
\* verify_response reports EXPIRED when now > expires_at whatever the
\* signature, and success with the decision when now <= expires_at and the
\* signature is the holder's.
CoreExpiryBoundary ==
    ( /\ CoreDone
      /\ CoreChallengeGood
      /\ AllPresent(cin.response)
      /\ cin.response.response \in Decisions
      /\ cin.response.id = cin.challenge.id
      /\ InWindow(cin) )
    => /\ ExpiredCore(cin) => cout = Return(FALSE, "EXPIRED")
       /\ (~ExpiredCore(cin) /\ SignatureDecodes(cin.response) /\ SignatureGood(cin))
             => cout = Return(TRUE, cin.response.response)

\* C10, stateless half: whenever core verify_response reports success, the
\* status it returns is the response's own response field.
CoreDecisionReturned ==
    (CoreDone /\ cout.ok) => cout.status = cin.response.response


\* ------------------------------------------------------------------------
\* Tamper detection
\* ------------------------------------------------------------------------
\* C11: a call that submits, for a pending and unexpired challenge, a
\* response naming that challenge whose signature was altered (it is not
\* the holder's signature over the message of the response) returns the
\* invalid-signature failure, leaves the record as it is, and no such call
\* reports success.
C11_TamperDetected ==
    [][\A p \in Callers :
          ( /\ pc[p] = "fetched" /\ pc'[p] = "done"
            /\ row[p].status = "pending"
            /\ now <= ExpiresT(row[p])
            /\ args[p].response_data.id = row[p].id
            /\ B64Decodes(args[p].response_data.signature)
            /\ args[p].response_data.signature.key # HolderKey )
          => /\ result'[p] = Return(FALSE, "Verification failed: InvalidSignature")
             /\ challenges'[row[p].id] = challenges[row[p].id]]_vars

\* C11, stateless half: with the earlier checks passed, a response whose
\* decision is not the one that was signed, or whose signature is another
\* key's, is reported as invalid signature by core verify_response.
CoreTamperDetected ==
    ( /\ CoreDone
      /\ CoreChallengeGood
      /\ AllPresent(cin.response)
      /\ cin.response.response \in Decisions
      /\ cin.response.id = cin.challenge.id
      /\ InWindow(cin)
      /\ ~ExpiredCore(cin)
      /\ SignatureDecodes(cin.response)
      /\ ~SignatureGood(cin) )
    => cout = Return(FALSE, "Invalid signature")

\* ------------------------------------------------------------------------
\* The signed message carries no timestamp
\* ------------------------------------------------------------------------
\* the inputs with the three instants replaced
Retimed(in, ct, et, rt) ==
    [in EXCEPT !.challenge.timestamp = IsoFormat(NowUtc(ct)),
               !.challenge.expires_at = IsoFormat(NowUtc(et)),
               !.response.timestamp = IsoFormat(NowUtc(rt))]

\* the inputs pass the id check, the timestamp window and the expiry check
PastTimeChecks(in) ==
    /\ in.challenge.id # Missing /\ in.challenge.action # Missing
    /\ in.challenge.nonce # Missing
    /\ AwareInstant(in.challenge.timestamp) /\ AwareInstant(in.challenge.expires_at)
    /\ in.key_ok
    /\ AllPresent(in.response)
    /\ in.response.response \in Decisions
    /\ in.response.id = in.challenge.id
    /\ InWindow(in)
    /\ ~ExpiredCore(in)

\* C12: what the signer signs is format_message(id, action, nonce,
\* decision) whatever the signing time; and a verification that passes the
\* time checks gives the same outcome as every verification that differs
\* from it only in the challenge's timestamp and expires_at and in the
\* response's timestamp and passes the time checks too.
C12_SignatureIgnoresTime ==
    (CoreDone /\ PastTimeChecks(cin)) =>
        /\ \A d \in Decisions : \A t \in 0..CoreMaxNow :
              sign_challenge(cin.challenge, HolderKey, d, t).signature
                 = B64Encode(Sign(HolderKey,
                      format_message(cin.challenge.id, cin.challenge.action,
                                     cin.challenge.nonce, d)))
        /\ \A ct \in 0..CoreMaxNow, et \in 0..(CoreMaxNow + 1),
              rt \in 0..(CoreMaxNow + ToleranceMinutes) :
              PastTimeChecks(Retimed(cin, ct, et, rt))
                 => verify_response(Retimed(cin, ct, et, rt)) = cout

\* C12 witness: a response signed by the holder verified successfully with
\* a timestamp later than the challenge's, and the same response stamped at
\* the challenge's own instant passes the time checks as well.
C12_Witness ==
    /\ CoreDone
    /\ PastTimeChecks(cin)
    /\ cout = Return(TRUE, cin.response.response)
    /\ cin.response.timestamp.t > cin.challenge.timestamp.t
    /\ PastTimeChecks(Retimed(cin, cin.challenge.timestamp.t, cin.challenge.expires_at.t,
                              cin.challenge.timestamp.t))

\* ------------------------------------------------------------------------
\* One signed byte string for all signers and verifiers
\* ------------------------------------------------------------------------
\* C13: format_message (core signer and verifier) and the f-string of
\* MfaClient.sign_response and MfaServer.verify_response give the same
\* bytes for the same (id, action, nonce, decision); and a response
\* produced by MfaClient.sign_response with the holder's key, the only one
\* submitted for its challenge, pending and unexpired, verifies under
\* MfaServer.verify_response.
C13_SignersVerifiersAgree ==
    /\ \A i \in Ids, a \in Actions, n \in Nonces, d \in Decisions :
          format_message(i, a, n, d) = FStringMessage(i, a, n, d)
    /\ \A p \in Callers :
          ( /\ pc[p] = "done"
            /\ SawPending(p)
            /\ \E d \in Decisions : Honest(p, d)
            /\ \A q \in Callers \ {p} : args[q].challenge_id # args[p].challenge_id
            /\ now <= ExpiresT(row[p]) )
          => result[p].kind = "return" /\ result[p].ok

\* C13, stateless verifier: a response produced by MfaClient.sign_response
\* for the well-formed challenge, inside the window and before expiry, is
\* accepted by core verify_response where fromisoformat reads the "Z" of
\* its timestamp (Python 3.11 on), and is answered with the
\* invalid-timestamp failure where it does not.
CoreVerifiesClientResponse ==
    \A d \in Decisions :
        ( /\ CoreDone
          /\ CoreChallengeGood
          /\ cin.response = sign_response(HolderKey, CoreChallenge, d, CoreIssueTime)
          /\ ~ExpiredCore(cin) )
        => cout = IF cin.py311 THEN Return(TRUE, d)
                  ELSE Return(FALSE, "Invalid timestamp format")

\* ------------------------------------------------------------------------
\* The window of the response timestamp
\* ------------------------------------------------------------------------
\* the response reaches the timestamp checks with an instant that carries
\* its offset
AtTimestampChecks ==
    /\ CoreDone
    /\ CoreChallengeGood
    /\ AllPresent(cin.response)
    /\ cin.response.response \in Decisions
    /\ cin.response.id = cin.challenge.id
    /\ AwareInstant(cin.response.timestamp)

\* C14: core verify_response answers "Response timestamp predates
\* challenge creation" when response.timestamp < challenge.timestamp, and
\* "Response timestamp is from the future" when response.timestamp is more
\* than 5 minutes after now, whatever the signature; a response with
\* challenge.timestamp <= response.timestamp <= now + 5 minutes gets
\* neither answer.
C14_TimestampWindow ==
    AtTimestampChecks =>
        LET rt == cin.response.timestamp.t
            ct == cin.challenge.timestamp.t
        IN /\ rt < ct
                => cout = Return(FALSE, "Response timestamp predates challenge creation")
           /\ (rt >= ct /\ rt > cin.now1 + 5)
                => cout = Return(FALSE, "Response timestamp is from the future")
           /\ (rt >= ct /\ rt <= cin.now1 + 5)
                => cout.status \notin {"Response timestamp predates challenge creation",
                                       "Response timestamp is from the future"}

\* a response with the holder's signature, stamped more than five minutes
\* ahead, has been refused as coming from the future
C14_Witness ==
    /\ AtTimestampChecks
    /\ SignatureDecodes(cin.response) /\ SignatureGood(cin)
    /\ cin.response.timestamp.t > cin.now1 + 5
    /\ cout = Return(FALSE, "Response timestamp is from the future")

\* ------------------------------------------------------------------------
\* The audit log
\* ------------------------------------------------------------------------
\* caller p's call of MfaServer.verify_response ends in this step
Completes(p) == pc[p] # "done" /\ pc'[p] = "done"

\* C15: every call of MfaServer.verify_response, whatever its outcome,
\* has appended an audit entry for the attempted challenge id by the time
\* it ends.
C15_EveryAttemptAudited ==
    [][\A p \in Callers :
          Completes(p)
          => /\ Len(audit_log') = Len(audit_log) + 1
             /\ audit_log'[Len(audit_log')].challenge_id = args'[p].challenge_id
             /\ audit_log'[Len(audit_log')].event_type
                   \in {"RESPONSE_VERIFIED", "VERIFICATION_FAILED"}]_vars

\* log l is an initial part of log m
IsPrefix(l, m) == Len(l) <= Len(m) /\ SubSeq(m, 1, Len(l)) = l

\* C16: the audit log is append-only: in every step of generate_challenge
\* and verify_response the log before the step is a prefix of the log
\* after it, so no entry is ever modified or removed.
C16_AuditAppendOnly == [][IsPrefix(audit_log, audit_log')]_vars

\* two entries are in the log and a call of verify_response has ended
C16_Witness ==
    /\ Len(audit_log) >= 2
    /\ \E p \in Callers : pc[p] = "done" /\ args[p].challenge_id \in DOMAIN challenges

\* ------------------------------------------------------------------------
\* Issuance
\* ------------------------------------------------------------------------
\* this step is a call of generate_challenge that returns a challenge
Issues == issued' \in Ids /\ issued' # issued

\* C17: a call of MfaServer.generate_challenge that returns a challenge
\* has inserted exactly one record, for the new id, with status pending
\* and no response or response_timestamp, and has appended exactly one
\* CHALLENGE_CREATED audit entry naming that id and action; both are in
\* the store when the challenge is returned.
C17_IssuanceWrites ==
    [][Issues =>
         LET id == issued'
             e == audit_log'[Len(audit_log')]
         IN  /\ id \notin DOMAIN challenges
             /\ DOMAIN challenges' = DOMAIN challenges \cup {id}
             /\ \A i \in DOMAIN challenges : challenges'[i] = challenges[i]
             /\ challenges'[id].id = id
             /\ challenges'[id].status = "pending"
             /\ challenges'[id].response = NullResponse
             /\ challenges'[id].response_timestamp = NoIso
             /\ Len(audit_log') = Len(audit_log) + 1
             /\ IsPrefix(audit_log, audit_log')
             /\ e.event_type = "CHALLENGE_CREATED"
             /\ e.challenge_id = id
             /\ e.action = challenges'[id].action]_vars

\* the second of two challenges has just been returned
C17_Witness ==
    /\ issued \in Ids
    /\ Cardinality(DOMAIN challenges) = 2
    /\ audit_log[Len(audit_log)].challenge_id = issued

\* the number of CHALLENGE_CREATED entries of log l that name id i
CreatedCount(l, i) ==
    Cardinality({k \in 1..Len(l) : l[k].event_type = "CHALLENGE_CREATED"
                                   /\ l[k].challenge_id = i})

\* C18: a create of an id that is already stored fails: every stored
\* record is as it was, no audit entry is written, and each stored id has
\* one record and one CHALLENGE_CREATED entry.
C18_DuplicateIdRejected ==
    [][/\ \A a \in Actions, i \in DOMAIN challenges, n \in Nonces :
             generate_challenge(a, i, n)
             => /\ issued' = "IntegrityError"
                /\ challenges' = challenges
                /\ audit_log' = audit_log
       /\ \A i \in DOMAIN challenges' :
             /\ challenges'[i].id = i
             /\ CreatedCount(audit_log', i) = 1]_vars

\* a create of a stored id has just failed
C18_Witness ==
    /\ issued = "IntegrityError"
    /\ DOMAIN challenges # {}

\* ------------------------------------------------------------------------
\* Unknown challenge ids
\* ------------------------------------------------------------------------
\* C19: MfaServer.verify_response for an id with no stored record returns
\* (False, "Challenge not found") and changes no record; no call that
\* accepts a response names an id that is not stored.
C19_UnknownIdNotFound ==
    [][\A p \in Callers :
          /\ ( /\ pc[p] = "idle" /\ pc'[p] # "idle"
               /\ args'[p].challenge_id \notin DOMAIN challenges )
             => /\ pc'[p] = "done"
                /\ result'[p] = Return(FALSE, "Challenge not found")
                /\ challenges' = challenges
          /\ (result'[p].kind = "return" /\ result'[p].ok)
             => args'[p].challenge_id \in DOMAIN challenges]_vars

\* a call for an id that was not issued has been answered not-found while
\* another challenge is stored
C19_Witness ==
    \E p \in Callers :
        /\ pc[p] = "done"
        /\ args[p].challenge_id \notin DOMAIN challenges
        /\ result[p] = Return(FALSE, "Challenge not found")
        /\ DOMAIN challenges # {}

\* ------------------------------------------------------------------------
\* Expiry of issued challenges
\* ------------------------------------------------------------------------
\* C20: every challenge returned by tools generate_challenge(action,
\* expiry_seconds), for every expiry_seconds it accepts, has expires_at =
\* timestamp + expiry_seconds and expires_at > timestamp.
C20_ExpiresAfterTimestamp ==
    cout # NoCoreOut
    => /\ FromIsoFormat(cout.expires_at).t = FromIsoFormat(cout.timestamp).t + cin.expiry
       /\ FromIsoFormat(cout.expires_at).t > FromIsoFormat(cout.timestamp).t

\* C20, server: every record written by MfaServer.generate_challenge has
\* expires_at = timestamp + 60 seconds, after its timestamp.
ServerExpiresAfterTimestamp ==
    \A i \in DOMAIN challenges :
        /\ ExpiresT(challenges[i])
              = FromIsoFormat(ReplaceZ(challenges[i].timestamp)).t + ExpiryMinutes
        /\ ExpiresT(challenges[i]) > FromIsoFormat(ReplaceZ(challenges[i].timestamp)).t

\* ------------------------------------------------------------------------
\* Stored challenges are immutable
\* ------------------------------------------------------------------------
\* the fields of a record that issuance sets
IssuedFields(r) == <<r.id, r.action, r.timestamp, r.nonce, r.expires_at>>

\* C21: no step removes a stored challenge or changes its id, action,
\* timestamp, nonce or expires_at; a step that ends a call of
\* MfaServer.verify_response leaves every record other than the one it
\* verifies as it was.
C21_ChallengeImmutable ==
    [][/\ \A i \in DOMAIN challenges :
             /\ i \in DOMAIN challenges'
             /\ IssuedFields(challenges'[i]) = IssuedFields(challenges[i])
       /\ \A p \in Callers :
             Completes(p)
             => \A i \in DOMAIN challenges :
                   i # args'[p].challenge_id => challenges'[i] = challenges[i]]_vars

\* two challenges are stored, issued at different instants, and a call of
\* verify_response for one of them has ended
C21_Witness ==
    /\ Cardinality(DOMAIN challenges) = 2
    /\ \E i, j \in DOMAIN challenges : challenges[i].timestamp # challenges[j].timestamp
    /\ \E p \in Callers : pc[p] = "done" /\ args[p].challenge_id \in DOMAIN challenges

\* ------------------------------------------------------------------------
\* Nonces
\* ------------------------------------------------------------------------
\* C22: any two distinct challenges stored by one server instance have
\* different nonces.
C22_NoNonceReuse ==
    \A i, j \in DOMAIN challenges :
        i # j => challenges[i].nonce # challenges[j].nonce

\* ------------------------------------------------------------------------
\* Exit codes of obolus-verify
\* ------------------------------------------------------------------------
CliDone == cout.kind = "exit"

\* C23: obolus-verify exits 2 when the challenge file, the response file
\* or the public key file cannot be read or loaded; with all three usable,
\* a well-formed challenge and a decodable response it exits 0 when
\* verification succeeds and 1 when a protocol check (id, timestamps,
\* expiry, signature) fails.
C23_ExitCodes ==
    CliDone =>
        /\ (~cin.challenge_readable \/ ~cin.response_readable \/ ~cin.key_ok)
              => cout.code = 2
        /\ ( /\ cin.challenge_readable /\ cin.response_readable /\ cin.key_ok
             /\ cin.challenge = CoreChallenge
             /\ AllPresent(cin.response)
             /\ cin.response.response \in Decisions
             /\ AwareInstant(cin.response.timestamp) )
              => cout.code = IF FirstFailure(cin).ok THEN 0 ELSE 1

\* C23 without the key file: with a key file that loads, obolus-verify
\* exits 2 for an unreadable challenge or response file, and 0 or 1 by the
\* outcome of verification otherwise.
CliExitCodesKeyLoads ==
    (CliDone /\ cin.key_ok) => C23_ExitCodes

\* ------------------------------------------------------------------------
\* Failures of the audit write
\* ------------------------------------------------------------------------
\* C24: a failure of the audit insert does not fail issuance: no call of
\* MfaServer.generate_challenge for a new id ends with the error of the
\* audit insert instead of an issued challenge.
C24_AuditFailureTolerated == issued # "OperationalError"

\* ------------------------------------------------------------------------
\* Decoding of challenges and responses
\* ------------------------------------------------------------------------
ChallengeFieldAbsent(c) ==
    \/ \E f \in {c.id, c.action, c.nonce} : f = Missing
    \/ c.timestamp.sfx = Missing \/ c.expires_at.sfx = Missing

\* a present value that is not an ISO-8601 instant with a UTC offset
NotAwareInstant(ts) == ts.sfx # Missing /\ (~ts.ok \/ ts.sfx = "")

\* C25: parse_challenge fails with the missing-field error when one of
\* id, action, timestamp, nonce, expires_at is absent, and with an
\* invalid-timestamp error when timestamp or expires_at is present but
\* naive or unparseable.
C25_ChallengeDecoding ==
    CoreDone =>
        LET c == cin.challenge
            e == ParseChallengeError(c, cin.py311)
        IN  /\ ChallengeFieldAbsent(c) => e = "Challenge missing required field"
            /\ ( /\ ~ChallengeFieldAbsent(c)
                 /\ NotAwareInstant(c.timestamp) \/ NotAwareInstant(c.expires_at) )
               => e \in {"Invalid timestamp format", "Invalid expires_at format"}

\* C25, as far as the code goes: parse_challenge fails on an absent field
\* and on an expires_at that does not parse (ValueError) or is naive
\* (TypeError), and accepts any timestamp that is present.
ChallengeDecodingExpiresOnly ==
    CoreDone =>
        LET c == cin.challenge
            e == ParseChallengeError(c, cin.py311)
        IN  /\ ChallengeFieldAbsent(c) => e = "Challenge missing required field"
            /\ (~ChallengeFieldAbsent(c) /\ ~c.expires_at.ok)
                  => e = "Invalid expires_at format"
            /\ (~ChallengeFieldAbsent(c) /\ c.expires_at.ok /\ c.expires_at.sfx = "")
                  => e = "can't compare offset-naive and offset-aware datetimes"
            /\ (~ChallengeFieldAbsent(c) /\ AwareInstant(c.expires_at)) => e = ""

\* C26: parse_response fails when id, response, timestamp or signature is
\* absent or when response is neither "approved" nor "rejected", so core
\* verify_response answers such a response with the decoding error and
\* never reports success for a decision outside {approved, rejected}.
C26_ResponseDecoding ==
    (CoreDone /\ ParseChallengeError(cin.challenge, cin.py311) = "") =>
        LET r == cin.response IN
        /\ r.json # "object"
              => cout = Return(FALSE, "Verification error: Invalid response JSON")
        /\ (r.json = "object" /\ ~AllPresent(r))
              => cout = Return(FALSE, "Verification error: Response missing required field")
        /\ (AllPresent(r) /\ r.response \notin Decisions)
              => cout = Return(FALSE,
                     "Verification error: Response action must be 'approved' or 'rejected'")
        /\ cout.ok => (AllPresent(r) /\ r.response \in Decisions)

\* a response with every field present, a signature that decodes and the
\* decision "maybe" has been refused
C26_Witness ==
    /\ CoreDone
    /\ CoreChallengeGood
    /\ AllPresent(cin.response)
    /\ cin.response.response = "maybe"
    /\ cin.response.id = cin.challenge.id
    /\ SignatureDecodes(cin.response)
    /\ ~cout.ok

\* ------------------------------------------------------------------------
\* Signing an invalid decision
\* ------------------------------------------------------------------------
SignDone == cin.tool = "sign" /\ cout # NoCoreOut

\* C27: a call of core sign_challenge or of MfaClient.sign_response with a
\* response action outside {approved, rejected} raises and returns no
\* response and no signature; for a challenge that parses the error raised
\* is the invalid-action ValueError.
C27_InvalidDecisionNotSigned ==
    (SignDone /\ cin.response_action \notin Decisions) =>
        /\ cout.kind = "raise"
        /\ "response" \notin DOMAIN cout
        /\ (cin.signer = "client" \/ cin.challenge = CoreChallenge)
              => cout.status = "Response action must be 'approved' or 'rejected'"

\* each signer has refused the response action "maybe" for the well-formed
\* challenge (and signs "approved" for it)
C27_Witness ==
    /\ SignDone
    /\ cin.challenge = CoreChallenge
    /\ cin.response_action = "maybe"
    /\ cout = Raise("Response action must be 'approved' or 'rejected'")
    /\ \A s \in {"core", "client"} :
          (IF s = "core"
           THEN sign_challenge_call(CoreChallenge, cin.key, "approved", cin.now, cin.py311)
           ELSE sign_response_call(cin.key, CoreChallenge, "approved", cin.now)).kind = "return"

\* ------------------------------------------------------------------------
\* The canonical message
\* ------------------------------------------------------------------------
FormatDone == cin.tool = "format_message" /\ cout.kind = "return"

\* C28: with the other three fields fixed, replacing the id, the action,
\* the nonce or the decision by a different value changes the bytes
\* format_message returns.
C28_SingleFieldSensitive ==
    FormatDone =>
        /\ \A x \in FieldValues \ {cin.id} :
              format_message(x, cin.action, cin.nonce, cin.response_action) # cout.status
        /\ \A x \in FieldValues \ {cin.action} :
              format_message(cin.id, x, cin.nonce, cin.response_action) # cout.status
        /\ \A x \in FieldValues \ {cin.nonce} :
              format_message(cin.id, cin.action, x, cin.response_action) # cout.status
        /\ \A x \in Decisions \ {cin.response_action} :
              format_message(cin.id, cin.action, cin.nonce, x) # cout.status

\* a message has been formed from fields that contain the separator
C28_Witness ==
    /\ FormatDone
    /\ cin.id = "a:b" /\ cin.action = "b:a" /\ cin.nonce = ":"
    /\ cout.status = "a:b:b:a:::approved"

\* ------------------------------------------------------------------------
\* JSON round trip
\* ------------------------------------------------------------------------
RoundTripDone == cin.tool = "roundtrip" /\ cout # NoCoreOut

GoodApproval(r) ==
    /\ r.json = "object"
    /\ r.id \in DOMAIN pending_challenges
    /\ r.response = "approved"
    /\ LET c == pending_challenges[r.id].challenge
       IN  /\ r.signature = B64Encode(Sign(HolderKey,
                                c.id \o ":" \o c.action \o ":" \o c.nonce \o ":approved"))
           /\ now <= c.expires_at.t

DeviceStateNeverChanges == state = InitialState

\* ------------------------------------------------------------------------
\* Failed checks of the stateful verifier
\* ------------------------------------------------------------------------
\* the response caller p submitted fails the id check or the signature check
\* against the row its SELECT returned
FailsIdOrSignature(p) ==
    LET r == args[p].response_data IN
    /\ r.json = "object"
    /\ \/ r.id # row[p].id
       \/ ~B64Decodes(r.signature)
       \/ r.signature.key # HolderKey
       \/ r.signature.msg # row[p].id \o ":" \o row[p].action \o ":"
                               \o row[p].nonce \o ":" \o r.response

\* C31: a call of MfaServer.verify_response whose response fails the id or
\* the signature check, for a pending unexpired challenge, leaves every
\* record as it was and appends exactly one VERIFICATION_FAILED entry for
\* that challenge.
C31_FailedCheckLeavesPending ==
    [][\A p \in Callers :
          ( /\ pc[p] = "fetched" /\ pc'[p] = "done"
            /\ row[p].status = "pending"
            /\ now <= ExpiresT(row[p])
            /\ FailsIdOrSignature(p) )
          => /\ challenges' = challenges
             /\ Len(audit_log') = Len(audit_log) + 1
             /\ audit_log'[Len(audit_log')].event_type = "VERIFICATION_FAILED"
             /\ audit_log'[Len(audit_log')].challenge_id = row[p].id]_vars

VerifiedEntries(i) ==
    {k \in 1..Len(audit_log) : /\ audit_log[k].event_type = "RESPONSE_VERIFIED"
                               /\ audit_log[k].challenge_id = i}

CoreOn(r, data, t) ==
    verify_response([challenge |-> ChallengeOf(r), response |-> data,
                     key_ok |-> TRUE, py311 |-> TRUE, now1 |-> t, now2 |-> t])

\* C36: for a stored pending challenge, MfaServer.verify_response reports
\* success exactly when core verify_response reports success on the same
\* challenge, response, key and clock, and then with the same decision.
C36_VerifiersAgree ==
    [][\A p \in Callers :
          ( /\ pc[p] = "fetched" /\ pc'[p] = "done"
            /\ row[p].status = "pending" )
          => LET core == CoreOn(row[p], args[p].response_data, now)
             IN  /\ (result'[p].kind = "return" /\ result'[p].ok) <=> core.ok
                 /\ core.ok => result'[p].status = core.status]_vars

\* ------------------------------------------------------------------------
\* The HTTP verify endpoint
\* ------------------------------------------------------------------------
BackendDone == cin.tool = "backend" /\ cout.kind = "return"

\* C37: POST /verify of examples/backend_example.py returns verified = true
\* exactly for the requests core verify_response accepts; in particular
\* never for a challenge past its expires_at or a response whose timestamp
\* is outside the window.
C37_BackendAgreesWithCore ==
    BackendDone =>
        /\ cout.ok <=> verify_response(cin).ok
        /\ cout.ok => (~ExpiredCore(cin) /\ InWindow(cin))

\* ------------------------------------------------------------------------
\* Injectivity of the signed message
\* ------------------------------------------------------------------------
\* C38: two distinct tuples (id, action, nonce, decision) never give the
\* same bytes: every tuple other than the one format_message was called
\* with forms a message different from the one returned.
C38_MessageInjective ==
    FormatDone =>
        \A i \in FieldValues, a \in FieldValues, n \in FieldValues, d \in Decisions :
            <<i, a, n, d>> # <<cin.id, cin.action, cin.nonce, cin.response_action>>
                => format_message(i, a, n, d) # cout.status

====
